---------------------------- MODULE Spec2Model ----------------------------
(***************************************************************************)
(* A model of the Cax exchange client of src/index.js.                     *)
(*                                                                         *)
(* The state is the fields of every client instance (privateKey, address,  *)
(* apiKey and the shared request config whose "API-Key" header the         *)
(* authenticated requests carry) and the asynchronous method calls that    *)
(* are in flight on them.  A call is suspended at each await of the        *)
(* source: on wallet.signMessage, on the key-issuance POST, and on the     *)
(* intended request.  Everything a call does between two awaits is one     *)
(* step: JavaScript runs it to completion without interleaving.            *)
(***************************************************************************)
EXTENDS Integers, Sequences, FiniteSets, TLC

(***************************************************************************)
(* Values.                                                                 *)
(***************************************************************************)
\* JavaScript's undefined: an argument that is omitted, a field never set.
Absent == "<undefined>"

\* The empty string: supplied, and falsy like undefined.
Empty == ""

\* JavaScript truthiness of the (string or undefined) values used here.
Truthy(v) == v # Absent /\ v # Empty

\* The client instances, each constructed from its own private key.
Clients == {"c1", "c2"}

PrivateKeyOf(c) == IF c = "c1" THEN "pk1" ELSE "pk2"

\* ethers.Wallet: the address is derived from the private key alone.
WalletAddress(pk) == <<"address", pk>>

\* The keys the exchange issues, and what a caller may hand to the
\* constructor or to updateApiKey (no validation of the key's format).
IssuedKeys == {"K1", "K2"}

KeyValues == IssuedKeys \cup {Absent, Empty}

\* The call slots: the asynchronous calls that may be in flight at once.
Calls == {"p", "q"}

\* Date.now() ranges over 1..MaxClock.
MaxClock == 1

baseUrl == "https://cax.piccadilly.autonity.org/api"

(***************************************************************************)
(* Date strings.  A date string is kept as text; Lex gives the tokens the  *)
(* regular expression and the Date parser see in it: the day (counted from *)
(* 2023-12-31), the separator between date and time, the hour, and the     *)
(* minutes and seconds.                                                    *)
(***************************************************************************)
DateStrings ==
    { "2024-01-02-03:04:05"    \* the documented 'YYYY-MM-DD-HH:MM:SS'
    , "2024-01-02/03:04:05" }  \* a wrong separator

Lex(s) ==
    CASE s = "2024-01-02-03:04:05" -> <<2, "-", 3, ":04:05">>
      [] s = "2024-01-02/03:04:05" -> <<2, "/", 3, ":04:05">>

\* String.replace with /(\d{4}-\d{2}-\d{2})-(\d{2}:\d{2}:\d{2})/ and '$1T$2':
\* a "-" between a date and a time of two-digit fields becomes "T".
RegexReplace(tokens) ==
    IF tokens[2] = "-" THEN [tokens EXCEPT ![2] = "T"] ELSE tokens

\* new Date(...) of a string the parser rejects.
InvalidDate == [hours |-> "NaN"]

\* new Date(isoString): a date-time without an offset is local time, so the
\* time value (here in hours, UTC) is the local one minus the host's offset
\* from UTC; a string of another shape gives an Invalid Date.
NewDate(tokens, utcOffset) ==
    IF tokens[2] = "T" /\ tokens[3] \in 0..23
    THEN [hours |-> tokens[1] * 24 + tokens[3] - utcOffset, rest |-> tokens[4]]
    ELSE InvalidDate

\* Date.prototype.toISOString: 'YYYY-MM-DDTHH:MM:SS.sssZ' in UTC.  It throws
\* a RangeError on an Invalid Date; the callers test ConvertThrows first.
ToISOString(date) ==
    <<date.hours \div 24, "T", date.hours % 24, date.rest, ".000Z">>

\* convertToISO8601(dateString) throws exactly when this holds.
ConvertThrows(dateString, utcOffset) ==
    NewDate(RegexReplace(Lex(dateString)), utcOffset) = InvalidDate

convertToISO8601(dateString, utcOffset) ==
    ToISOString(NewDate(RegexReplace(Lex(dateString)), utcOffset))

(***************************************************************************)
(* The methods and their arguments.                                        *)
(***************************************************************************)
FilterMethods == {"getDeposits", "getRefunds", "getWithdraws", "getOrders", "getTrades"}

AuthMethods ==
    FilterMethods \cup
    { "getBalances", "getDepositInfo", "getRefundInfo", "requestWithdraw",
      "getWithdrawInfo", "submitLimitOrder", "getOrderInfo", "cancelOrder",
      "getTradeInfo" }

\* The methods that send their request without the credential check.
PublicMethods ==
    { "getOrderbooks", "getOrderbookInfo", "getOrderbookDepth",
      "getOrderbookQuote", "getTradeHistory", "getExchangeStatus",
      "getSymbols", "getSymbolsInfo" }

Methods == AuthMethods \cup PublicMethods \cup {"generateApiKey"}

\* The parameters of each method, in the order of its signature.
Params(m) ==
    CASE m = "generateApiKey"   -> <<>>
      [] m = "getBalances"      -> <<"symbol">>
      [] m = "getDeposits"      -> <<"startTime", "endTime", "symbol">>
      [] m = "getDepositInfo"   -> <<"txId">>
      [] m = "getRefunds"       -> <<"startTime", "endTime", "symbol">>
      [] m = "getRefundInfo"    -> <<"txId">>
      [] m = "getWithdraws"     -> <<"status", "startTime", "endTime", "symbol">>
      [] m = "requestWithdraw"  -> <<"payload">>
      [] m = "getWithdrawInfo"  -> <<"txId">>
      [] m = "getOrders"        -> <<"status", "startTime", "endTime", "pair">>
      [] m = "submitLimitOrder" -> <<"payload">>
      [] m = "getOrderInfo"     -> <<"orderId">>
      [] m = "cancelOrder"      -> <<"orderId">>
      [] m = "getTrades"        -> <<"startTime", "endTime", "pair", "orderId">>
      [] m = "getTradeInfo"     -> <<"tradeId">>
      [] m = "getOrderbooks"     -> <<>>
      [] m = "getOrderbookInfo"  -> <<"pair">>
      [] m = "getOrderbookDepth" -> <<"pair">>
      [] m = "getOrderbookQuote" -> <<"pair">>
      [] m = "getTradeHistory"   -> <<"pair", "date">>
      [] m = "getExchangeStatus" -> <<>>
      [] m = "getSymbols"        -> <<>>
      [] m = "getSymbolsInfo"    -> <<"name">>

ParamNames(m) == {Params(m)[i] : i \in 1..Len(Params(m))}

\* The values a caller passes for a parameter; Absent is an omitted one.
ArgValues(name) ==
    CASE name \in {"startTime", "endTime"} -> DateStrings \cup {Absent}
      [] name \in {"symbol", "pair"}       -> {"ATN-USD", Empty, Absent}
      [] name = "status"                   -> {"pending", Absent}
      [] name = "orderId"                  -> {"o1", Absent}
      [] name = "txId"                     -> {"tx1"}
      [] name = "tradeId"                  -> {"t1"}
      [] name = "payload"                  -> {"{amount,pair,price,side}"}
      [] name = "date"                     -> {"2024-01-02", Absent}
      [] name = "name"                     -> {"ATN-USD"}

AllArgValues ==
    UNION {ArgValues(n) : n \in {"startTime", "symbol", "status", "orderId",
                                 "txId", "tradeId", "payload", "date", "name"}}

Args(m) == {a \in [ParamNames(m) -> AllArgValues] :
                \A n \in ParamNames(m) : a[n] \in ArgValues(n)}

\* A value interpolated into a template literal: undefined reads "undefined".
Interp(v) == IF v = Absent THEN "undefined" ELSE v

(***************************************************************************)
(* The request each method builds.                                         *)
(***************************************************************************)
\* The filters a listing method tests with && before it builds its URL.
Filters(m) == IF m \in FilterMethods THEN ParamNames(m) ELSE {}

\* AllFilters, had the test left out the symbol (or pair) operand.
AllFiltersButSymbol(m, a) ==
    \A n \in Filters(m) \ {"symbol", "pair"} : Truthy(a[n])

\* (startTime && endTime && symbol) and its four-operand forms.
AllFilters(m, a) == \A n \in Filters(m) : Truthy(a[n])

\* The first path segment of each listing method's endpoints.
Resource(m) ==
    CASE m = "getDeposits"  -> "deposits"
      [] m = "getRefunds"   -> "refunds"
      [] m = "getWithdraws" -> "withdraws"
      [] m = "getOrders"    -> "orders"
      [] m = "getTrades"    -> "trades"

\* The query string of a filtered listing, in the order the template
\* literal writes it.
Query(m, a, utcOffset) ==
    LET end   == <<"end", convertToISO8601(a.endTime, utcOffset)>>
        start == <<"start", convertToISO8601(a.startTime, utcOffset)>>
    IN  CASE m \in {"getDeposits", "getRefunds"} ->
                <<end, start, <<"symbol", a.symbol>>>>
          [] m = "getWithdraws" ->
                <<<<"status", a.status>>, end, start, <<"symbol", a.symbol>>>>
          [] m = "getOrders" ->
                <<<<"status", a.status>>, end, start, <<"symbol", a.pair>>>>
          [] m = "getTrades" ->
                <<end, start, <<"pair", a.pair>>, <<"orderId", a.orderId>>>>

\* The path of the URL below baseUrl, as its segments ("/deposits/" ends in
\* an empty segment), and the query string.
Url(path, query) == [base |-> baseUrl, path |-> path, query |-> query]

\* Unfiltered, had getTrades fallen back to its own listing like the others.
UnfilteredOwnResource(m) == Url(<<Resource(m)>>, <<>>)

\* The URL a listing method falls back to when a filter is missing.
Unfiltered(m) ==
    IF m = "getTrades" THEN Url(<<"orders">>, <<>>)
    ELSE Url(<<Resource(m)>>, <<>>)

UrlOf(m, a, utcOffset) ==
    CASE m \in FilterMethods ->
            IF AllFilters(m, a)
            THEN Url(<<Resource(m), "">>, Query(m, a, utcOffset))
            ELSE Unfiltered(m)
      [] m = "getBalances" ->
            IF Truthy(a.symbol) THEN Url(<<"balances", Interp(a.symbol)>>, <<>>)
            ELSE Url(<<"balances">>, <<>>)
      [] m = "getDepositInfo"   -> Url(<<"deposits", Interp(a.txId)>>, <<>>)
      [] m = "getRefundInfo"    -> Url(<<"refunds", Interp(a.txId)>>, <<>>)
      [] m = "requestWithdraw"  -> Url(<<"withdraws">>, <<>>)
      [] m = "getWithdrawInfo"  -> Url(<<"withdraws", Interp(a.txId)>>, <<>>)
      [] m = "submitLimitOrder" -> Url(<<"orders", "">>, <<>>)
      [] m = "getOrderInfo"     -> Url(<<"orders", Interp(a.orderId)>>, <<>>)
      [] m = "cancelOrder"      -> Url(<<"orders", Interp(a.orderId)>>, <<>>)
      [] m = "getTradeInfo"     -> Url(<<"trades", Interp(a.tradeId)>>, <<>>)
      [] m = "getOrderbooks"    -> Url(<<"orderbooks">>, <<>>)
      [] m = "getOrderbookInfo" -> Url(<<"orderbooks", Interp(a.pair)>>, <<>>)
      [] m = "getOrderbookDepth" ->
            Url(<<"orderbooks", Interp(a.pair), "depth">>, <<>>)
      [] m = "getOrderbookQuote" ->
            Url(<<"orderbooks", Interp(a.pair), "quote">>, <<>>)
      [] m = "getTradeHistory" ->
            IF Truthy(a.date)
            THEN Url(<<"orderbooks", Interp(a.pair), "trades", "">>,
                     <<<<"data", a.date>>>>)
            ELSE Url(<<"orderbooks", Interp(a.pair), "trades">>, <<>>)
      [] m = "getExchangeStatus" -> Url(<<"status">>, <<>>)
      [] m = "getSymbols"        -> Url(<<"symbols">>, <<>>)
      [] m = "getSymbolsInfo"    -> Url(<<"symbols", Interp(a.name)>>, <<>>)

\* axios.get, axios.post or axios.delete.
VerbOf(m) ==
    CASE m \in {"requestWithdraw", "submitLimitOrder"} -> "POST"
      [] m = "cancelOrder" -> "DELETE"
      [] OTHER -> "GET"

BodyOf(m, a) ==
    IF m \in {"requestWithdraw", "submitLimitOrder"} THEN a.payload ELSE Absent

\* Building the URL throws when a date of a filtered listing does not convert.
BuildThrows(m, a, utcOffset) ==
    /\ m \in FilterMethods
    /\ AllFilters(m, a)
    /\ \/ ConvertThrows(a.endTime, utcOffset)
       \/ ConvertThrows(a.startTime, utcOffset)

\* A request handed to axios without a config: no header of the client's.
NoConfig == [headers |-> [h \in {} |-> Absent]]

\* The config a method hands to axios: this.config in every authenticated
\* method and in getOrderbooks, none in the other public methods.
PassedConfig(m, cfg) ==
    IF m \in AuthMethods \cup {"getOrderbooks"} THEN cfg ELSE NoConfig

\* The request a method hands to axios.
IntendedRequest(m, a, utcOffset, cfg) ==
    [verb |-> VerbOf(m), url |-> UrlOf(m, a, utcOffset),
     headers |-> PassedConfig(m, cfg).headers, body |-> BodyOf(m, a)]

(***************************************************************************)
(* Key issuance.                                                           *)
(***************************************************************************)
\* `${Date.now()}`
Nonce(now) == ToString(now)

\* JSON.stringify({ "nonce": n })
JSONStringify(message) == <<"{\"nonce\":\"", message.nonce, "\"}">>

\* wallet.signMessage: determined by the key and the message.
SignMessage(pk, text) == <<"sig", pk, text>>

\* IssuanceRequest, had the signature been sent under the API-Key header.
IssuanceRequestWrongHeader(sig, payload) ==
    [verb |-> "POST", url |-> Url(<<"apikeys">>, <<>>),
     headers |-> ("API-Key" :> sig), body |-> payload]

\* The request createApiKey posts.
IssuanceRequest(sig, payload) ==
    [verb |-> "POST", url |-> Url(<<"apikeys">>, <<>>),
     headers |-> ("api-sig" :> sig), body |-> payload]

IsIssuance(req) == req.url.path = <<"apikeys">>

(***************************************************************************)
(* State.                                                                  *)
(***************************************************************************)
VARIABLES
    privateKey,   \* privateKey[c]: this.privateKey of client c
    address,      \* address[c]: this.address, derived at construction
    apiKey,       \* apiKey[c]: this.apiKey, the stored credential
    config,       \* config[c]: this.config, the request config every
                  \*   authenticated request of c is sent with
    utcOffset,    \* the host's time zone, hours ahead of UTC
    calls         \* calls[p]: the asynchronous call in slot p: where it is
                  \*   suspended (pc), its receiver, method and arguments,
                  \*   whether the instance held a credential when it was called,
                  \*   the nonce payload being signed, the requests it sent
                  \*   and the answers it got (trace), and its promise

vars == <<privateKey, address, apiKey, config, utcOffset, calls>>

\* The time zones of the hosts considered.
UtcOffsets == {0, 1}

\* What the exchange answers: the apikey field of a key-issuance response
\* (a 2xx response may carry none), and the payload of any other response.
ResponseKeys == IssuedKeys \cup {Absent}

Payloads == {"payload1", "payload2"}

\* The error axios rejects with on a network error or a non-2xx status.
TransportErrors == {"AxiosError"}

\* The events of a call, in order: each request handed to axios, and each
\* response or error axios came back with.
Sent(req) == [ev |-> "send", req |-> req]

Received(data) == [ev |-> "response", data |-> data]

Failed(err) == [ev |-> "error", data |-> err]

\* The promise a call returned.
Pending == [state |-> "pending", value |-> Absent]

Resolved(v) == [state |-> "resolved", value |-> v]

Rejected(e) == [state |-> "rejected", value |-> e]

\* No nonce payload has been built.
NoMessage == [nonce |-> Absent]

IdleCall ==
    [pc |-> "idle", client |-> Absent, method |-> Absent, args |-> <<>>,
     held |-> FALSE, message |-> NoMessage, trace |-> <<>>, result |-> Pending]

\* The requests a call has sent so far, in order.
RECURSIVE RequestsOf(_)
RequestsOf(trace) ==
    IF trace = <<>> THEN <<>>
    ELSE IF Head(trace).ev = "send"
         THEN <<Head(trace).req>> \o RequestsOf(Tail(trace))
         ELSE RequestsOf(Tail(trace))

(***************************************************************************)
(* The constructor: the state of a fresh instance.                         *)
(***************************************************************************)
Constructed(pk, key) ==
    [privateKey |-> pk, address |-> WalletAddress(pk), apiKey |-> key,
     config |-> [headers |-> ("API-Key" :> key)]]

Init ==
    /\ \E keys \in [Clients -> KeyValues] :
          /\ privateKey = [c \in Clients |-> Constructed(PrivateKeyOf(c), keys[c]).privateKey]
          /\ address = [c \in Clients |-> Constructed(PrivateKeyOf(c), keys[c]).address]
          /\ apiKey = [c \in Clients |-> Constructed(PrivateKeyOf(c), keys[c]).apiKey]
          /\ config = [c \in Clients |-> Constructed(PrivateKeyOf(c), keys[c]).config]
    /\ utcOffset \in UtcOffsets
    /\ calls = [p \in Calls |-> IdleCall]

(***************************************************************************)
(* updateApiKey                                                            *)
(***************************************************************************)
\* StoredKey, had a credential already held been kept.
StoredKeyIfAbsent(c, key) ==
    IF Truthy(apiKey[c]) THEN apiKey ELSE [apiKey EXCEPT ![c] = key]

\* this.apiKey = apiKey
StoredKey(c, key) == [apiKey EXCEPT ![c] = key]

\* StoredHeader, had updateApiKey forgotten the header.
StoredHeaderStale(c, keys) == config

\* StoredHeader, had the instances shared one config object.
StoredHeaderShared(c, keys) ==
    [d \in Clients |-> [headers |-> [config[d].headers EXCEPT !["API-Key"] = keys[c]]]]

\* StoredHeader, had the header been written only while it was absent.
StoredHeaderOnce(c, keys) ==
    [config EXCEPT ![c] = [headers |->
        [@.headers EXCEPT !["API-Key"] = IF @ = Absent THEN keys[c] ELSE @]]]

\* this.config["headers"]["API-Key"] = this.apiKey
StoredHeader(c, keys) ==
    [config EXCEPT ![c] = [headers |-> [@.headers EXCEPT !["API-Key"] = keys[c]]]]

UpdateApiKey(c, key) ==
    /\ apiKey' = StoredKey(c, key)
    /\ config' = StoredHeader(c, apiKey')
    /\ UNCHANGED <<privateKey, address, utcOffset, calls>>

(***************************************************************************)
(* The authenticated methods and generateApiKey.                           *)
(***************************************************************************)
\* NeedsKey, had provisioning been single-flight: a call that finds another
\* call of the instance provisioning does not provision itself.
NeedsKeySingleFlight(c) ==
    /\ ~Truthy(apiKey[c])
    /\ \A p \in Calls :
          ~(calls[p].client = c /\ calls[p].pc \in {"signing", "issuing"})

\* NeedsKey, had the methods provisioned on every call.
NeedsKeyAlways(c) == TRUE

\* NeedsKey, had the check been this.apiKey === undefined.
NeedsKeyUndefinedOnly(c) == apiKey[c] = Absent

\* if (!this.apiKey) ...
NeedsKey(c) == ~Truthy(apiKey[c])

\* CheckedFirst, had every method begun with the credential check.
CheckedFirstAlways(m) == TRUE

\* The method begins with the credential check.
CheckedFirst(m) == m \in AuthMethods

\* generateApiKey up to its first await: the nonce payload is built and
\* handed to wallet.signMessage.
StartIssuance(call, now) ==
    [call EXCEPT !.pc = "signing", !.message = [nonce |-> Nonce(now)]]

\* The rest of a method once the credential check (if it has one) is behind
\* it: the URL is built (the date conversion may throw) and the request
\* is handed to axios with the shared config as it is at that moment.
SendIntended(call, cfg) ==
    IF BuildThrows(call.method, call.args, utcOffset)
    THEN [call EXCEPT !.pc = "done", !.result = Rejected("RangeError")]
    ELSE [call EXCEPT
            !.pc = "requesting",
            !.trace = Append(@, Sent(IntendedRequest(call.method, call.args,
                                                     utcOffset, cfg)))]

\* A method is called: it runs to its first await.
Invoke(p, c, m, a, now) ==
    /\ calls[p].pc = "idle"
    /\ LET call == [IdleCall EXCEPT !.client = c, !.method = m, !.args = a,
                                    !.held = Truthy(apiKey[c])]
       IN  calls' = [calls EXCEPT ![p] =
                IF m = "generateApiKey" \/ (CheckedFirst(m) /\ NeedsKey(c))
                THEN StartIssuance(call, now)
                ELSE SendIntended(call, config[c])]
    /\ UNCHANGED <<privateKey, address, apiKey, config, utcOffset>>

\* Signed, had the method not awaited generateApiKey(): the intended
\* request leaves together with the key-issuance request.
SignedWithoutAwait(p) ==
    /\ calls[p].pc = "signing"
    /\ LET call == calls[p]
           sig == SignMessage(privateKey[call.client], JSONStringify(call.message))
           posted == [call EXCEPT !.trace = Append(@, Sent(IssuanceRequest(sig, call.message)))]
       IN  calls' = [calls EXCEPT ![p] =
                IF call.method = "generateApiKey"
                THEN [posted EXCEPT !.pc = "issuing"]
                ELSE SendIntended(posted, config[call.client])]
    /\ UNCHANGED <<privateKey, address, apiKey, config, utcOffset>>

\* wallet.signMessage resolves: createApiKey posts the signed payload.
Signed(p) ==
    /\ calls[p].pc = "signing"
    /\ LET call == calls[p]
           sig == SignMessage(privateKey[call.client], JSONStringify(call.message))
       IN  calls' = [calls EXCEPT ![p] =
                [call EXCEPT !.pc = "issuing",
                             !.trace = Append(@, Sent(IssuanceRequest(sig, call.message)))]]
    /\ UNCHANGED <<privateKey, address, apiKey, config, utcOffset>>

\* The key-issuance response arrives: createApiKey stores res.data.apikey and
\* returns it; generateApiKey returns it; a lazily provisioning method goes
\* on to its own request in the same run of continuations.
KeyIssued(p, key) ==
    /\ calls[p].pc = "issuing"
    /\ LET call == [calls[p] EXCEPT !.trace = Append(@, Received([apikey |-> key]))]
           c == call.client
       IN  /\ apiKey' = StoredKey(c, key)
           /\ config' = StoredHeader(c, apiKey')
           /\ calls' = [calls EXCEPT ![p] =
                IF call.method = "generateApiKey"
                THEN [call EXCEPT !.pc = "done", !.result = Resolved(key)]
                ELSE SendIntended(call, config'[c])]
    /\ UNCHANGED <<privateKey, address, utcOffset>>

\* RequestFailed, had a failed request been sent once more.
RequestFailedRetry(p, err) ==
    /\ calls[p].pc \in {"issuing", "requesting"}
    /\ LET call == calls[p]
           last == call.trace[Len(call.trace)]
       IN  calls' = [calls EXCEPT ![p] =
                IF \E i \in 1..Len(call.trace) : call.trace[i].ev = "error"
                THEN [call EXCEPT !.pc = "done", !.trace = Append(@, Failed(err)),
                                  !.result = Rejected(err)]
                ELSE [call EXCEPT !.trace = @ \o <<Failed(err), last>>]]
    /\ UNCHANGED <<privateKey, address, apiKey, config, utcOffset>>

\* axios rejects (network error, non-2xx status): nothing catches it, so the
\* call rejects with the same error.
RequestFailed(p, err) ==
    /\ calls[p].pc \in {"issuing", "requesting"}
    /\ calls' = [calls EXCEPT ![p] =
            [@ EXCEPT !.pc = "done", !.trace = Append(@, Failed(err)),
                      !.result = Rejected(err)]]
    /\ UNCHANGED <<privateKey, address, apiKey, config, utcOffset>>

\* The response to the intended request arrives: the method returns res.data.
Responded(p, data) ==
    /\ calls[p].pc = "requesting"
    /\ calls' = [calls EXCEPT ![p] =
            [@ EXCEPT !.pc = "done", !.trace = Append(@, Received(data)),
                      !.result = Resolved(data)]]
    /\ UNCHANGED <<privateKey, address, apiKey, config, utcOffset>>

\* The caller has taken the settled promise; the slot is free again.
Settle(p) ==
    /\ calls[p].pc = "done"
    /\ calls' = [calls EXCEPT ![p] = IdleCall]
    /\ UNCHANGED <<privateKey, address, apiKey, config, utcOffset>>

\* A method together with the arguments of one call of it.
Inputs(methods) == UNION {{<<m, a>> : a \in Args(m)} : m \in methods}

\* Calls started one after the other, each when the one before has settled:
\* every method with every argument list, on either instance, with
\* updateApiKey free to run while a call is suspended.
Next ==
    \/ \E c \in Clients, key \in KeyValues : UpdateApiKey(c, key)
    \/ \E c \in Clients, in \in Inputs(Methods), now \in 1..MaxClock :
          Invoke("p", c, in[1], in[2], now)
    \/ Signed("p")
    \/ \E key \in ResponseKeys : KeyIssued("p", key)
    \/ \E err \in TransportErrors : RequestFailed("p", err)
    \/ \E data \in Payloads : Responded("p", data)
    \/ Settle("p")

Spec == Init /\ [][Next]_vars

\* Calls in flight together, as in the README's usage example, which starts
\* generateApiKey() and getBalances() without awaiting either.
ConcurrentInputs == Inputs({"generateApiKey"}) \cup {<<"getBalances", [symbol |-> Absent]>>}

ConcurrentInit == Init /\ utcOffset = 0

ConcurrentNext ==
    \/ \E c \in Clients, key \in KeyValues : UpdateApiKey(c, key)
    \/ \E p \in Calls, c \in Clients, in \in ConcurrentInputs, now \in 1..MaxClock :
          Invoke(p, c, in[1], in[2], now)
    \/ \E p \in Calls : Signed(p)
    \/ \E p \in Calls, key \in ResponseKeys : KeyIssued(p, key)
    \/ \E p \in Calls, err \in TransportErrors : RequestFailed(p, err)
    \/ \E p \in Calls, data \in Payloads : Responded(p, data)
    \/ \E p \in Calls : Settle(p)

ConcurrentSpec == ConcurrentInit /\ [][ConcurrentNext]_vars

\* Instances constructed with an API key: new Cax(privateKey, apiKey).  A
\* credential found absent or empty later on has been cleared.
KeyedInit == Init /\ \A c \in Clients : Truthy(apiKey[c])

KeyedSpec == KeyedInit /\ [][Next]_vars

(***************************************************************************)
(* What the claims speak of.                                               *)
(***************************************************************************)
\* An authenticated method called while the instance held no credential.
Lazy(call) == call.method \in AuthMethods /\ ~call.held

\* An authenticated method called while the instance held a credential.
Keyed(call) == call.method \in AuthMethods /\ call.held

IsSend(e) == e.ev = "send"

IsIssuanceSend(e) == e.ev = "send" /\ IsIssuance(e.req)

IsIntendedSend(e) == e.ev = "send" /\ ~IsIssuance(e.req)

IssuanceCount(call) ==
    Cardinality({i \in 1..Len(call.trace) : IsIssuanceSend(call.trace[i])})

\* The call's key issuance was answered with a non-empty key.
Provisioned(call) ==
    /\ Len(call.trace) >= 2
    /\ IsIssuanceSend(call.trace[1])
    /\ call.trace[2].ev = "response"
    /\ Truthy(call.trace[2].data.apikey)

\* The requests call p hands to axios in this step.
JustSent(p) ==
    {calls'[p].trace[i].req :
        i \in {j \in (Len(calls[p].trace) + 1)..Len(calls'[p].trace) :
                  IsSend(calls'[p].trace[j])}}

\* The key-issuance response of call p arrives in this step.
IssuanceAnswered(p) ==
    /\ calls[p].pc = "issuing"
    /\ Len(calls'[p].trace) > Len(calls[p].trace)
    /\ calls'[p].trace[Len(calls[p].trace) + 1].ev = "response"

\* The key that response carries.
AnsweredKey(p) == calls'[p].trace[Len(calls[p].trace) + 1].data.apikey

(***************************************************************************)
(* C1  Lazy provisioning.                                                  *)
(***************************************************************************)
\* An authenticated call made while no credential is held sends exactly one
\* key-issuance request, and sends its intended request only after that
\* request was answered.
C1_OneIssuanceFirst ==
    \A p \in Calls :
        LET call == calls[p] IN
        Lazy(call) =>
            /\ IssuanceCount(call) = (IF call.pc = "signing" THEN 0 ELSE 1)
            /\ \A i \in 1..Len(call.trace) :
                  IsIntendedSend(call.trace[i]) =>
                      \E j, k \in 1..Len(call.trace) :
                          /\ j < k /\ k < i
                          /\ IsIssuanceSend(call.trace[j])
                          /\ call.trace[k].ev = "response"

\* The key an issuance returns is the stored credential, and a credential
\* becomes absent or empty only by being replaced with such a value: by
\* updateApiKey, or by a key issuance whose response carries no key.
C1_KeptUntilReplaced ==
    /\ \A p \in Calls :
          IssuanceAnswered(p) => apiKey'[calls[p].client] = AnsweredKey(p)
    /\ \A c \in Clients :
          (Truthy(apiKey[c]) /\ ~Truthy(apiKey'[c])) =>
              \/ \E key \in {Absent, Empty} : UpdateApiKey(c, key)
              \/ \E p \in Calls :
                    /\ calls[p].client = c
                    /\ IssuanceAnswered(p)
                    /\ ~Truthy(AnsweredKey(p))

\* C1 (as amended): for every authenticated method, a call made while no
\* credential is held triggers exactly one key-issuance request, which is
\* answered before the intended request is sent; the key it returns is the
\* stored credential from then until updateApiKey or another key issuance
\* replaces it, and the credential becomes absent again only when one of
\* those stores an absent or empty value.
C1_LazyProvisioning == [](C1_OneIssuanceFirst) /\ [][C1_KeptUntilReplaced]_vars

\* C1 (as claimed): ... and once such a call has obtained a key, the
\* credential is non-absent for all later calls on that instance.
C1_AsClaimed ==
    /\ C1_OneIssuanceFirst
    /\ \A p \in Calls :
          (Lazy(calls[p]) /\ Provisioned(calls[p])) => Truthy(apiKey[calls[p].client])

\* A lazily provisioning call of every kind has run to its payload.
C1_Witness ==
    /\ Lazy(calls["p"])
    /\ calls["p"].method = "cancelOrder"
    /\ Provisioned(calls["p"])
    /\ calls["p"].result.state = "resolved"
    /\ Len(calls["p"].trace) = 4
    /\ apiKey[calls["p"].client] = calls["p"].trace[2].data.apikey

(***************************************************************************)
(* C2  Credential propagation.                                             *)
(***************************************************************************)
\* While no key has been stored, the header value is absent.
C2_AbsentUntilSet ==
    \A c \in Clients :
        apiKey[c] = Absent => config[c].headers["API-Key"] = Absent

\* updateApiKey(X) makes X the credential, and every authenticated request
\* carries, in its API-Key header, the credential stored when it is sent.
C2_CarriesCredential ==
    /\ \A c \in Clients, key \in KeyValues :
          UpdateApiKey(c, key) => apiKey'[c] = key
    /\ \A p \in Calls : \A req \in JustSent(p) :
          (calls'[p].method \in AuthMethods /\ ~IsIssuance(req)) =>
              /\ DOMAIN req.headers = {"API-Key"}
              /\ req.headers["API-Key"] = apiKey'[calls'[p].client]

\* C2: after updateApiKey(X) every authenticated request the instance sends
\* carries the header API-Key: X, until updateApiKey or a key issuance
\* replaces the credential; before any key is set the header is absent.
C2_CredentialPropagation == [](C2_AbsentUntilSet) /\ [][C2_CarriesCredential]_vars

\* A request was sent with the credential the instance held, and another
\* with the credential a key issuance had just stored.
C2_Witness ==
    /\ Keyed(calls["p"])
    /\ calls["p"].pc = "requesting"
    /\ calls["p"].trace[1].req.headers["API-Key"] = "K2"
    /\ apiKey[calls["p"].client] = "K2"

(***************************************************************************)
(* C3  Provisioning is paid only on first use.                             *)
(***************************************************************************)
\* The date strings of the documented pattern.
WellFormedDates == {"2024-01-02-03:04:05"}

\* Every filter of a listing call is given and one of its dates is not of
\* the documented pattern: converting it throws.
MalformedFilter(call) ==
    /\ call.method \in FilterMethods
    /\ \A n \in ParamNames(call.method) : Truthy(call.args[n])
    /\ \E n \in {"startTime", "endTime"} : call.args[n] \notin WellFormedDates

C4_NoSingleFlight ==
    \A p \in Calls :
        LET call == calls[p] IN
        (call.pc \notin {"idle", "signing"}
            /\ (call.method = "generateApiKey" \/ Lazy(call))) =>
            /\ IsIssuanceSend(call.trace[1])
            /\ call.trace[1].req.body = call.message

\* generateApiKey() and getBalances() were started on an instance holding no
\* credential, and both key-issuance requests are awaiting their response.
C4_Witness ==
    /\ calls["p"].client = calls["q"].client
    /\ calls["p"].method = "generateApiKey"
    /\ calls["q"].method = "getBalances"
    /\ ~calls["p"].held /\ ~calls["q"].held
    /\ calls["p"].pc = "issuing" /\ calls["q"].pc = "issuing"
    /\ IssuanceCount(calls["p"]) = 1 /\ IssuanceCount(calls["q"]) = 1

(***************************************************************************)
(* C5  generateApiKey success.                                             *)
(***************************************************************************)
C5_KeyStored ==
    \A p \in Calls :
        IssuanceAnswered(p) =>
            LET c == calls[p].client
                K == AnsweredKey(p)
            IN  /\ apiKey'[c] = K
                /\ config'[c].headers["API-Key"] = K
                /\ calls[p].method = "generateApiKey" =>
                      /\ calls'[p].pc = "done"
                      /\ calls'[p].result = Resolved(K)

\* C5: when the key-issuance request succeeds and returns key K, the stored
\* credential and the outgoing API-Key header both become K, whatever
\* credential was held before, and generateApiKey returns K.
C5_GenerateApiKeySuccess == [][C5_KeyStored]_vars

\* generateApiKey, called with a credential held, returned K2, which is now
\* the credential and the header, after an overlapping issuance stored K1.
C5_Witness ==
    /\ calls["p"].method = "generateApiKey"
    /\ calls["p"].held
    /\ calls["p"].result = Resolved("K2")
    /\ calls["q"].client = calls["p"].client
    /\ Provisioned(calls["q"])
    /\ calls["q"].trace[2].data.apikey = "K1"
    /\ apiKey[calls["p"].client] = "K2"
    /\ config[calls["p"].client].headers["API-Key"] = "K2"

(***************************************************************************)
(* C6  Fail fast without retry.                                            *)
(***************************************************************************)
\* A transport error ends the call: it is the last event of the call, it
\* answers a request that was sent once, and the call has rejected with it.
C6_ErrorEndsCall ==
    \A p \in Calls :
        LET call == calls[p] IN
        \A i \in 1..Len(call.trace) :
            call.trace[i].ev = "error" =>
                /\ i = Len(call.trace)
                /\ i > 1 /\ IsSend(call.trace[i - 1])
                /\ \A j \in 1..(i - 2) : call.trace[j] # call.trace[i - 1]
                /\ call.pc = "done"
                /\ call.result = Rejected(call.trace[i].data)

\* The step in which the error arrives sends nothing and leaves the stored
\* credential and the header as they were.
C6_ErrorKeepsCredential ==
    \A p \in Calls :
        (/\ Len(calls'[p].trace) > Len(calls[p].trace)
         /\ calls'[p].trace[Len(calls'[p].trace)].ev = "error") =>
            /\ JustSent(p) = {}
            /\ apiKey' = apiKey
            /\ config' = config

\* C6: when a transport request fails (the key-issuance request during lazy
\* provisioning, or the intended request), the call rejects with that error,
\* sends no further request (no intended request after a failed issuance,
\* no repetition of the failed request), and leaves the credential unchanged.
C6_FailFast == [](C6_ErrorEndsCall) /\ [][C6_ErrorKeepsCredential]_vars

\* Lazy provisioning failed: the call rejected after its one request, the
\* key issuance, and the instance still holds no credential.
C6_Witness ==
    /\ Lazy(calls["p"])
    /\ calls["p"].method = "requestWithdraw"
    /\ Len(calls["p"].trace) = 2
    /\ IsIssuanceSend(calls["p"].trace[1])
    /\ calls["p"].trace[2] = Failed("AxiosError")
    /\ calls["p"].result = Rejected("AxiosError")
    /\ ~Truthy(apiKey[calls["p"].client])

(***************************************************************************)
(* C7  End-to-end first call.                                              *)
(***************************************************************************)
\* C7: getBalances() on a client holding no API key first sends a
\* key-issuance POST whose body is the nonce payload and whose api-sig header
\* is the wallet signature over that serialized payload, then sends the
\* balances GET carrying the key that issuance returned, and resolves to
\* exactly the payload of the balances response.
C7_FirstCall ==
    \A p \in Calls :
        LET call == calls[p]
            t == call.trace
        IN  (call.method = "getBalances" /\ ~call.held
                /\ call.result.state = "resolved") =>
            /\ Len(t) = 4
            /\ t[1].ev = "send"
            /\ t[1].req.verb = "POST"
            /\ t[1].req.url = [base |-> baseUrl, path |-> <<"apikeys">>, query |-> <<>>]
            /\ DOMAIN t[1].req.body = {"nonce"}
            /\ t[1].req.body.nonce \in {ToString(n) : n \in 1..MaxClock}
            /\ t[1].req.headers =
                  ("api-sig" :> SignMessage(privateKey[call.client],
                                           JSONStringify(t[1].req.body)))
            /\ t[2].ev = "response"
            /\ t[3].ev = "send"
            /\ t[3].req.verb = "GET"
            /\ t[3].req.url.base = baseUrl
            /\ t[3].req.url.path = (IF Truthy(call.args.symbol)
                                    THEN <<"balances", call.args.symbol>>
                                    ELSE <<"balances">>)
            /\ t[3].req.url.query = <<>>
            /\ t[3].req.headers = ("API-Key" :> t[2].data.apikey)
            /\ t[4].ev = "response"
            /\ call.result = Resolved(t[4].data)

\* getBalances() on a client without a key has resolved to the payload of
\* the balances response, which carried the key K1 issued on the way.
C7_Witness ==
    /\ calls["p"].method = "getBalances"
    /\ ~calls["p"].held
    /\ calls["p"].args.symbol = Absent
    /\ calls["p"].result = Resolved("payload2")
    /\ calls["p"].trace[2].data.apikey = "K1"
    /\ calls["p"].trace[3].req.headers["API-Key"] = "K1"

(***************************************************************************)
(* C8, C9  The endpoints of the listing methods.                           *)
(***************************************************************************)
\* A parameter is supplied when it is given a value: an omitted parameter
\* is not, and neither is the empty string, which selects nothing.
Supplied(v) == v # Absent /\ v # Empty

AllSupplied(call) == \A n \in ParamNames(call.method) : Supplied(call.args[n])

NoneSupplied(m) == [n \in ParamNames(m) |-> Absent]

\* The call has sent its intended request.
HasIntended(call) ==
    call.trace # <<>> /\ ~IsIssuance(RequestsOf(call.trace)[Len(RequestsOf(call.trace))])

Intended(call) == RequestsOf(call.trace)[Len(RequestsOf(call.trace))]

\* The names of the query fields, in order.
QueryNames(query) == [i \in 1..Len(query) |-> query[i][1]]

\* C8: the request of getDeposits and getRefunds (three filters) and of
\* getWithdraws and getOrders (four) goes to the filtered endpoint, with a
\* query string, if and only if every filter parameter is supplied; with
\* all omitted, or any proper subset supplied, it goes to the same
\* unfiltered endpoint as with all of them omitted.
C8_FilterFallback ==
    \A p \in Calls :
        LET call == calls[p]
            m == call.method
        IN  (m \in {"getDeposits", "getRefunds", "getWithdraws", "getOrders"}
                /\ HasIntended(call)) =>
            LET url == Intended(call).url IN
            /\ (url.query # <<>>) <=> AllSupplied(call)
            /\ AllSupplied(call) =>
                  /\ url.path = <<Resource(m), "">>
                  /\ QueryNames(url.query) =
                        (IF m \in {"getDeposits", "getRefunds"}
                         THEN <<"end", "start", "symbol">>
                         ELSE <<"status", "end", "start", "symbol">>)
            /\ ~AllSupplied(call) =>
                  /\ url = UrlOf(m, NoneSupplied(m), utcOffset)
                  /\ url.path = <<Resource(m)>>

\* getWithdraws with its four filters went to the filtered endpoint, and
\* (in another state) getDeposits without a symbol to the unfiltered one.
C8_Witness ==
    /\ calls["p"].method = "getWithdraws"
    /\ AllSupplied(calls["p"])
    /\ HasIntended(calls["p"])
    /\ Intended(calls["p"]).url.path = <<"withdraws", "">>
    /\ Len(Intended(calls["p"]).url.query) = 4

StepOn(c) ==
    \/ \E key \in KeyValues : UpdateApiKey(c, key)
    \/ \E p \in Calls :
          /\ calls'[p] # calls[p]
          /\ c \in {calls[p].client, calls'[p].client}

C10_Frame ==
    /\ privateKey' = privateKey
    /\ address' = address
    /\ \A c \in Clients :
          (apiKey'[c] # apiKey[c] \/ config'[c] # config[c]) => StepOn(c)

\* C10: after construction no operation changes an instance's private key
\* or derived address, and no operation on one instance changes the
\* credential or the header of another.
C10_IdentityAndIsolation ==
    /\ [](\A c \in Clients : /\ privateKey[c] = PrivateKeyOf(c)
                              /\ address[c] = WalletAddress(privateKey[c]))
    /\ [][C10_Frame]_vars

\* One instance has provisioned key K1 while the other still has none.
C10_Witness ==
    /\ calls["p"].client = "c1"
    /\ Provisioned(calls["p"])
    /\ apiKey["c1"] = "K1"
    /\ config["c1"].headers["API-Key"] = "K1"
    /\ apiKey["c2"] = Absent
    /\ config["c2"].headers["API-Key"] = Absent

(***************************************************************************)
(* C11  Header and credential agree.                                       *)
(***************************************************************************)
\* C11: in every state of an instance, between the steps of interleaved
\* calls and after overlapping key issuances included, the shared request
\* config has the one header API-Key and its value is the stored apiKey.
C11_HeaderAgreement ==
    \A c \in Clients :
        /\ DOMAIN config[c].headers = {"API-Key"}
        /\ config[c].headers["API-Key"] = apiKey[c]

\* Two calls of one instance, both started without a credential, have each
\* had a key issued: K1 first, then K2, which the second call is now
\* sending its request with.
C11_Witness ==
    /\ calls["p"].client = "c1" /\ calls["q"].client = "c1"
    /\ ~calls["p"].held /\ ~calls["q"].held
    /\ calls["p"].method = "generateApiKey"
    /\ calls["p"].result = Resolved("K1")
    /\ calls["q"].method = "getBalances"
    /\ Provisioned(calls["q"])
    /\ calls["q"].trace[2].data.apikey = "K2"
    /\ calls["q"].pc = "requesting"
    /\ apiKey["c1"] = "K2"
    /\ config["c1"].headers["API-Key"] = "K2"

(***************************************************************************)
(* C12  The methods that need no credential.                               *)
(***************************************************************************)
\* A call of one of the eight public methods.
Public(call) == call.method \in PublicMethods

\* The request carries a credential in an API-Key header (a header whose
\* value is undefined is left out by axios, an empty one names no key).
CarriesApiKey(req) ==
    "API-Key" \in DOMAIN req.headers /\ Truthy(req.headers["API-Key"])

\* A public call never provisions: it is never suspended in a key issuance,
\* and once it has run to its await it has sent one request, its own.
C12_OneRequestNoIssuance ==
    \A p \in Calls :
        Public(calls[p]) =>
            /\ calls[p].pc \in {"requesting", "done"}
            /\ Len(RequestsOf(calls[p].trace)) = 1
            /\ IsSend(calls[p].trace[1])
            /\ ~IsIssuance(calls[p].trace[1].req)
            /\ calls[p].trace[1].req.verb = "GET"

\* No step of a public call changes the credential or the header.
C12_CredentialUntouched ==
    \A p \in Calls :
        (/\ calls'[p] # calls[p]
         /\ Public(calls[p]) \/ Public(calls'[p])) =>
            /\ apiKey' = apiKey
            /\ config' = config

\* The headers of the requests: none of the client's in seven of the
\* methods, the shared config's in getOrderbooks.
C12_HeadersAsSent ==
    \A p \in Calls : \A req \in JustSent(p) :
        Public(calls'[p]) =>
            IF calls'[p].method = "getOrderbooks"
            THEN req.headers = config[calls'[p].client].headers
            ELSE DOMAIN req.headers = {}

\* C12 (as the code has it): the public methods never trigger key
\* provisioning and never change the credential, whether or not one is
\* held, and send a single request; that request carries no API-Key header,
\* except that getOrderbooks sends the shared config and with it the
\* credential the instance holds.
C12_PublicNeverProvisions ==
    /\ [](C12_OneRequestNoIssuance)
    /\ [][C12_CredentialUntouched /\ C12_HeadersAsSent]_vars

\* C12 (as claimed): the same, and the single request of every public
\* method carries no API-Key header.
C12_AsClaimed ==
    /\ C12_OneRequestNoIssuance
    /\ \A p \in Calls :
          Public(calls[p]) => ~CarriesApiKey(calls[p].trace[1].req)

\* getOrderbooks was called on an instance holding K1: its request is out,
\* with API-Key: K1, and the credential is as it was.
C12_Witness ==
    /\ calls["p"].method = "getOrderbooks"
    /\ calls["p"].held
    /\ calls["p"].pc = "requesting"
    /\ calls["p"].trace[1].req.url.path = <<"orderbooks">>
    /\ calls["p"].trace[1].req.headers = ("API-Key" :> "K1")
    /\ apiKey[calls["p"].client] = "K1"

(***************************************************************************)
(* C13  Clearing the credential re-arms provisioning.                      *)
(***************************************************************************)
\* Call p starts in this step, on an instance whose credential is absent or
\* empty.
StartsCleared(p) ==
    /\ calls[p].pc = "idle" /\ calls'[p].pc # "idle"
    /\ ~Truthy(apiKey[calls'[p].client])

\* A credential is cleared only by updateApiKey with an absent or empty
\* value or by a key-issuance response that carries no key.
C13_ClearedBy ==
    \A c \in Clients :
        (Truthy(apiKey[c]) /\ ~Truthy(apiKey'[c])) =>
            \/ \E key \in {Absent, Empty} : UpdateApiKey(c, key)
            \/ \E p \in Calls : /\ calls[p].client = c
                                 /\ IssuanceAnswered(p)
                                 /\ AnsweredKey(p) = Absent

\* An authenticated call that starts on a cleared credential starts key
\* provisioning and sends nothing yet.
C13_StartsProvisioning ==
    \A p \in Calls :
        (StartsCleared(p) /\ calls'[p].method \in AuthMethods) =>
            /\ calls'[p].pc = "signing"
            /\ calls'[p].message.nonce # Absent
            /\ calls'[p].trace = <<>>

\* Its intended request leaves only in the step in which the answer to
\* its key issuance arrives.
C13_RequestAfterIssuance ==
    \A p \in Calls :
        (/\ Lazy(calls'[p])
         /\ \E req \in JustSent(p) : ~IsIssuance(req)) =>
            /\ IssuanceAnswered(p)
            /\ IssuanceCount(calls'[p]) = 1

\* C13: once the stored credential has become absent or empty after having
\* been set (updateApiKey with an absent or empty value, or a key-issuance
\* response without a key), the next authenticated call runs key
\* provisioning again before its intended request.
C13_Rearmed ==
    [][C13_ClearedBy /\ C13_StartsProvisioning /\ C13_RequestAfterIssuance]_vars

\* On an instance constructed with a key and cleared since, getOrderInfo
\* has provisioned K2 and is sending its request with it.
C13_Witness ==
    /\ calls["p"].method = "getOrderInfo"
    /\ ~calls["p"].held
    /\ Provisioned(calls["p"])
    /\ calls["p"].trace[2].data.apikey = "K2"
    /\ calls["p"].pc = "requesting"
    /\ IsIntendedSend(calls["p"].trace[3])
    /\ calls["p"].trace[3].req.url.path = <<"orders", "o1">>
    /\ calls["p"].trace[3].req.headers = ("API-Key" :> "K2")

=============================================================================
